---------------------------- MODULE Spec2Model ----------------------------
(***************************************************************************)
(* A model of play-music (src/play-music.c): the command-line parser      *)
(* (parseArguments, parseShortOptions), the playlist builder               *)
(* (isMusicFile, playlistAppendFromDirectory, playlistShuffle) and the     *)
(* playback loop of main with the launcher runCommand.                     *)
(*                                                                         *)
(* C strings are sequences of one-character strings.  A pointer to a       *)
(* string is a sequence holding that string; NULL is the empty sequence.   *)
(***************************************************************************)
EXTENDS Integers, Sequences, FiniteSets, TLC

VARIABLES
    pc,              \* position of the process in main / parseArguments
    input,           \* shape of the command line: "short" or "long"
    argv,            \* the tokens cstrSliceHead has handed out so far
    state,           \* ArgumentParserState of parseArguments
    dont_shuffle,    \* ParsedArguments.dont_shuffle
    match,           \* ParsedArguments.match (pointer)
    dont_repeat,     \* ParsedArguments.dont_repeat
    directory_count, \* ParsedArguments.directory_count
    directories,     \* ParsedArguments.directories[0 .. directory_count)
    help_printed,    \* printHelp has written the help text to stdout
    stderr,          \* the diagnostics written to standard error, in order
    exit_status,     \* how the process ended, "running" while it has not
    regex,           \* the compiled match expression (pointer), NULL if none
    fs,              \* the listing readdir gives for each directory opened
    i,               \* main: index of the next directory to load
    playlist,        \* Playlist.songs[0 .. count)
    size,            \* Playlist.size
    shuffles,        \* number of calls of playlistShuffle so far
    song,            \* main: index of the song to play next
    cycle,           \* main: completed passes of the do-while loop
    children,        \* the child processes not yet waited for
    invoked          \* the songs runCommand has forked a child for, in order

mainVars == <<regex, fs, i, playlist, size, shuffles, song, cycle, children,
              invoked>>

parserVars == <<input, argv, state, dont_shuffle, match, dont_repeat,
                directory_count, directories, help_printed>>

-----------------------------------------------------------------------------
(* Bounds of the model.                                                    *)

\* Longest command line (tokens after the program name) of varied tokens.
MaxArgs == 3
\* Longest command line of the "long" shape: copies of one directory token.
MaxFill == 51
\* Longest argument list runCommand is given.
MaxArguments == 3
\* Longest directory list main is started with.
MaxDirs == 2
\* Most entries readdir returns for one directory.
MaxEntries == 2
\* Largest value rand() returns.
MaxRand == 2
\* Passes of the endless do-while loop of main that are followed.
MaxCycles == 1
\* Most calls of playlistAppendOwnedSong on one Playlist taken by itself.
MaxAppends == 101

-----------------------------------------------------------------------------
(* Strings.                                                                *)

NULL == <<>>
Ptr(s) == <<s>>
Deref(p) == p[1]

EMPTY      == <<>>
HELP       == <<"-", "-", "h", "e", "l", "p">>
NO_SHUFFLE == <<"-", "-", "n", "o", "-", "s", "h", "u", "f", "f", "l", "e">>
MATCH      == <<"-", "-", "m", "a", "t", "c", "h">>
NO_REPEAT  == <<"-", "-", "n", "o", "-", "r", "e", "p", "e", "a", "t">>
DASHDASH   == <<"-", "-">>

\* Tokens the modelled command lines are made of.
UNKNOWN_LONG  == <<"-", "-", "x">>
SHORT_H       == <<"-", "h">>
SHORT_M       == <<"-", "m">>
SHORT_MH      == <<"-", "m", "h">>
SHORT_X       == <<"-", "x">>
DASH          == <<"-">>
D1            == <<"d", "1">>
D2            == <<"d", "2">>

Tokens == {EMPTY, HELP, NO_SHUFFLE, MATCH, NO_REPEAT, DASHDASH, UNKNOWN_LONG,
           SHORT_H, SHORT_M, SHORT_MH, SHORT_X, DASH, D1, D2}

\* strncmp(prefix, s, n) == 0 for a prefix of length n.
HasPrefix(s, prefix) ==
    /\ Len(s) >= Len(prefix)
    /\ SubSeq(s, 1, Len(prefix)) = prefix

\* s + n: the string that starts n characters into s.
Skip(s, n) == SubSeq(s, n + 1, Len(s))

Last(s) == s[Len(s)]

-----------------------------------------------------------------------------
(* The command line.  cstrSliceHead hands out argv one token at a time, so *)
(* the model reveals the command line token by token: a "short" command    *)
(* line is any sequence of at most MaxArgs tokens of Tokens, a "long" one  *)
(* is an optional "--" followed by at most MaxFill copies of D1.           *)

\* The tokens that may follow the tokens `given` handed out so far.
NextTokens(given) ==
    IF input = "short"
    THEN IF Len(given) < MaxArgs THEN Tokens ELSE {}
    ELSE IF Len(given) = 0 THEN {DASHDASH, D1}
         ELSE IF Len(given) < MaxFill + 1 THEN {D1} ELSE {}

\* The values cstrSliceHead(&arguments) can return after `given`: NULL when
\* the slice is empty, else a pointer to its first token.
cstrSliceHead(given) == {NULL} \cup {Ptr(t) : t \in NextTokens(given)}

-----------------------------------------------------------------------------
(* Process exit.                                                           *)

Running == exit_status = "running"

\* exit(status), abort() or a fatal signal: the process is gone.
Exit(status) ==
    /\ pc' = "exited"
    /\ exit_status' = status

-----------------------------------------------------------------------------
(* ParsedArguments.                                                        *)

PARSED_ARGUMENTS_MAX_DIRECTORIES == 50

\* parsedArgumentsAppendDirectory.  The bound is checked by an assert only:
\* a build with assertions aborts, a build with NDEBUG writes past the end
\* of directories[] (undefined behaviour, after which nothing is modelled).
parsedArgumentsAppendDirectory(directory) ==
    IF directory_count < PARSED_ARGUMENTS_MAX_DIRECTORIES
    THEN /\ directories' = Append(directories, directory)
         /\ directory_count' = directory_count + 1
         /\ UNCHANGED <<pc, exit_status>>
    ELSE /\ UNCHANGED <<directories, directory_count>>
         /\ pc' = "exited"
         /\ exit_status' \in {"SIGABRT", "undefined"}

\* printShortHelp(stderr, program) after a diagnostic.
printShortHelp(diagnostic) == stderr' = stderr \o <<diagnostic, "short_help">>

-----------------------------------------------------------------------------
(* parseArguments, state ARGUMENT_PARSER_BASE.                             *)

\* BaseCase with the test for "--help" placed after the test for an
\* unknown "--" option.
BaseCaseHelpTooLate(next) ==
    IF Len(next) = 0                 THEN "empty"
    ELSE IF next = NO_SHUFFLE        THEN "no_shuffle"
    ELSE IF next = MATCH             THEN "match"
    ELSE IF next = NO_REPEAT         THEN "no_repeat"
    ELSE IF next = DASHDASH          THEN "end_of_options"
    ELSE IF HasPrefix(next, DASHDASH) THEN "unknown_long"
    ELSE IF next = HELP              THEN "help"
    ELSE IF next[1] = "-"            THEN "short"
    ELSE "directory"

\* The branch of the if-chain of ARGUMENT_PARSER_BASE a token takes.
BaseCase(next) ==
    IF Len(next) = 0                 THEN "empty"
    ELSE IF next = HELP              THEN "help"
    ELSE IF next = NO_SHUFFLE        THEN "no_shuffle"
    ELSE IF next = MATCH             THEN "match"
    ELSE IF next = NO_REPEAT         THEN "no_repeat"
    ELSE IF next = DASHDASH          THEN "end_of_options"
    ELSE IF HasPrefix(next, DASHDASH) THEN "unknown_long"
    ELSE IF next[1] = "-"            THEN "short"
    ELSE "directory"

\* parseShortOptions up to the point where it needs the next argument.
\* Every case of the switch leaves the function, so only the first
\* character of options is ever examined.
parseShortOptions(options) ==
    IF options = <<>> THEN [kind |-> "done"]
    ELSE CASE Head(options) = "h" -> [kind |-> "help"]
           [] Head(options) = "m" ->
                IF Tail(options) # <<>>
                THEN [kind |-> "match", value |-> Tail(options)]
                ELSE [kind |-> "next_argument"]
           [] OTHER -> [kind |-> "unknown"]

AtBase == pc = "parse" /\ state = "BASE"

\* NULL == next: arguments exhausted, parseArguments returns.
BaseEnd ==
    /\ AtBase
    /\ NULL \in cstrSliceHead(argv)
    /\ pc' = "parsed"
    /\ UNCHANGED <<parserVars, stderr, exit_status>>
    /\ UNCHANGED mainVars

BaseEmpty ==
    /\ AtBase
    /\ \E next \in cstrSliceHead(argv) \ {NULL} :
        /\ BaseCase(Deref(next)) = "empty"
        /\ argv' = Append(argv, Deref(next))
    /\ UNCHANGED <<pc, input, state, dont_shuffle, match, dont_repeat,
                   directory_count, directories, help_printed, stderr,
                   exit_status>>
    /\ UNCHANGED mainVars

BaseHelp ==
    /\ AtBase
    /\ \E next \in cstrSliceHead(argv) \ {NULL} :
        /\ BaseCase(Deref(next)) = "help"
        /\ argv' = Append(argv, Deref(next))
    /\ help_printed' = TRUE
    /\ Exit("exit0")
    /\ UNCHANGED <<input, state, dont_shuffle, match, dont_repeat,
                   directory_count, directories, stderr>>
    /\ UNCHANGED mainVars

BaseNoShuffle ==
    /\ AtBase
    /\ \E next \in cstrSliceHead(argv) \ {NULL} :
        /\ BaseCase(Deref(next)) = "no_shuffle"
        /\ argv' = Append(argv, Deref(next))
    /\ dont_shuffle' = TRUE
    /\ UNCHANGED <<pc, input, state, match, dont_repeat, directory_count,
                   directories, help_printed, stderr, exit_status>>
    /\ UNCHANGED mainVars

BaseMatch ==
    /\ AtBase
    /\ \E next \in cstrSliceHead(argv) \ {NULL} :
        /\ BaseCase(Deref(next)) = "match"
        /\ argv' = Append(argv, Deref(next))
    /\ state' = "MATCH"
    /\ UNCHANGED <<pc, input, dont_shuffle, match, dont_repeat,
                   directory_count, directories, help_printed, stderr,
                   exit_status>>
    /\ UNCHANGED mainVars

BaseNoRepeat ==
    /\ AtBase
    /\ \E next \in cstrSliceHead(argv) \ {NULL} :
        /\ BaseCase(Deref(next)) = "no_repeat"
        /\ argv' = Append(argv, Deref(next))
    /\ dont_repeat' = TRUE
    /\ UNCHANGED <<pc, input, state, dont_shuffle, match, directory_count,
                   directories, help_printed, stderr, exit_status>>
    /\ UNCHANGED mainVars

BaseEndOfOptions ==
    /\ AtBase
    /\ \E next \in cstrSliceHead(argv) \ {NULL} :
        /\ BaseCase(Deref(next)) = "end_of_options"
        /\ argv' = Append(argv, Deref(next))
    /\ state' = "END_OF_OPTIONS"
    /\ UNCHANGED <<pc, input, dont_shuffle, match, dont_repeat,
                   directory_count, directories, help_printed, stderr,
                   exit_status>>
    /\ UNCHANGED mainVars

\* Unknown option '--x': the diagnostic, then exit(1) with no short help.
BaseUnknownLong ==
    /\ AtBase
    /\ \E next \in cstrSliceHead(argv) \ {NULL} :
        /\ BaseCase(Deref(next)) = "unknown_long"
        /\ argv' = Append(argv, Deref(next))
    /\ stderr' = Append(stderr, "unknown_option")
    /\ Exit("exit1")
    /\ UNCHANGED <<input, state, dont_shuffle, match, dont_repeat,
                   directory_count, directories, help_printed>>
    /\ UNCHANGED mainVars

BaseDirectory ==
    /\ AtBase
    /\ \E next \in cstrSliceHead(argv) \ {NULL} :
        /\ BaseCase(Deref(next)) = "directory"
        /\ argv' = Append(argv, Deref(next))
        /\ parsedArgumentsAppendDirectory(Deref(next))
    /\ UNCHANGED <<input, state, dont_shuffle, match, dont_repeat,
                   help_printed, stderr>>
    /\ UNCHANGED mainVars

\* '-' == next[0]: parseShortOptions(&arguments, &parsed_arguments, 1 + next).
\* A lone "-" has no options: nothing happens.
BaseShortDone ==
    /\ AtBase
    /\ \E next \in cstrSliceHead(argv) \ {NULL} :
        /\ BaseCase(Deref(next)) = "short"
        /\ parseShortOptions(Skip(Deref(next), 1)).kind = "done"
        /\ argv' = Append(argv, Deref(next))
    /\ UNCHANGED <<pc, input, state, dont_shuffle, match, dont_repeat,
                   directory_count, directories, help_printed, stderr,
                   exit_status>>
    /\ UNCHANGED mainVars

BaseShortHelp ==
    /\ AtBase
    /\ \E next \in cstrSliceHead(argv) \ {NULL} :
        /\ BaseCase(Deref(next)) = "short"
        /\ parseShortOptions(Skip(Deref(next), 1)).kind = "help"
        /\ argv' = Append(argv, Deref(next))
    /\ help_printed' = TRUE
    /\ Exit("exit0")
    /\ UNCHANGED <<input, state, dont_shuffle, match, dont_repeat,
                   directory_count, directories, stderr>>
    /\ UNCHANGED mainVars

\* -mREGEX: the leftover options are the argument to -m.
BaseShortMatch ==
    /\ AtBase
    /\ \E next \in cstrSliceHead(argv) \ {NULL} :
        LET result == parseShortOptions(Skip(Deref(next), 1)) IN
        /\ BaseCase(Deref(next)) = "short"
        /\ result.kind = "match"
        /\ argv' = Append(argv, Deref(next))
        /\ match' = Ptr(result.value)
    /\ UNCHANGED <<pc, input, state, dont_shuffle, dont_repeat,
                   directory_count, directories, help_printed, stderr,
                   exit_status>>
    /\ UNCHANGED mainVars

\* -m REGEX: the next argument is the argument to -m.
BaseShortMatchNext ==
    /\ AtBase
    /\ \E next \in cstrSliceHead(argv) \ {NULL} :
        /\ BaseCase(Deref(next)) = "short"
        /\ parseShortOptions(Skip(Deref(next), 1)).kind = "next_argument"
        /\ \E next_argument \in cstrSliceHead(Append(argv, Deref(next))) \ {NULL} :
            /\ argv' = argv \o <<Deref(next), Deref(next_argument)>>
            /\ match' = next_argument
    /\ UNCHANGED <<pc, input, state, dont_shuffle, dont_repeat,
                   directory_count, directories, help_printed, stderr,
                   exit_status>>
    /\ UNCHANGED mainVars

\* -m with nothing after it.  printf("got: %s\n", next_argument) is handed
\* NULL for %s before the check (undefined behaviour): the process either
\* dies there or goes on to the diagnostic and exit(1).
BaseShortMatchMissing ==
    /\ AtBase
    /\ \E next \in cstrSliceHead(argv) \ {NULL} :
        /\ BaseCase(Deref(next)) = "short"
        /\ parseShortOptions(Skip(Deref(next), 1)).kind = "next_argument"
        /\ NULL \in cstrSliceHead(Append(argv, Deref(next)))
        /\ argv' = Append(argv, Deref(next))
    /\ \/ /\ printShortHelp("expects_argument")
          /\ Exit("exit1")
       \/ /\ UNCHANGED stderr
          /\ Exit("SIGSEGV")
    /\ UNCHANGED <<input, state, dont_shuffle, match, dont_repeat,
                   directory_count, directories, help_printed>>
    /\ UNCHANGED mainVars

BaseShortUnknown ==
    /\ AtBase
    /\ \E next \in cstrSliceHead(argv) \ {NULL} :
        /\ BaseCase(Deref(next)) = "short"
        /\ parseShortOptions(Skip(Deref(next), 1)).kind = "unknown"
        /\ argv' = Append(argv, Deref(next))
    /\ printShortHelp("unknown_option")
    /\ Exit("exit1")
    /\ UNCHANGED <<input, state, dont_shuffle, match, dont_repeat,
                   directory_count, directories, help_printed>>
    /\ UNCHANGED mainVars

-----------------------------------------------------------------------------
(* parseArguments, state ARGUMENT_PARSER_END_OF_OPTIONS.                   *)

AtEndOfOptions == pc = "parse" /\ state = "END_OF_OPTIONS"

EndOfOptionsEnd ==
    /\ AtEndOfOptions
    /\ NULL \in cstrSliceHead(argv)
    /\ pc' = "parsed"
    /\ UNCHANGED <<parserVars, stderr, exit_status>>
    /\ UNCHANGED mainVars

EndOfOptionsDirectory ==
    /\ AtEndOfOptions
    /\ \E next \in cstrSliceHead(argv) \ {NULL} :
        /\ argv' = Append(argv, Deref(next))
        /\ parsedArgumentsAppendDirectory(Deref(next))
    /\ UNCHANGED <<input, state, dont_shuffle, match, dont_repeat,
                   help_printed, stderr>>
    /\ UNCHANGED mainVars

-----------------------------------------------------------------------------
(* parseArguments, state ARGUMENT_PARSER_MATCH.                            *)

AtMatch == pc = "parse" /\ state = "MATCH"

MatchMissing ==
    /\ AtMatch
    /\ NULL \in cstrSliceHead(argv)
    /\ printShortHelp("expects_argument")
    /\ Exit("exit1")
    /\ UNCHANGED parserVars
    /\ UNCHANGED mainVars

\* MatchArgument that takes a token starting with '-' for an option and
\* leaves it to ARGUMENT_PARSER_BASE.
MatchArgumentSkipsOptions ==
    /\ AtMatch
    /\ \E next \in cstrSliceHead(argv) \ {NULL} :
        /\ argv' = Append(argv, Deref(next))
        /\ match' = IF Deref(next) # <<>> /\ Deref(next)[1] = "-"
                    THEN match ELSE next
    /\ state' = "BASE"
    /\ UNCHANGED <<pc, input, dont_shuffle, dont_repeat, directory_count,
                   directories, help_printed, stderr, exit_status>>
    /\ UNCHANGED mainVars

MatchArgument ==
    /\ AtMatch
    /\ \E next \in cstrSliceHead(argv) \ {NULL} :
        /\ argv' = Append(argv, Deref(next))
        /\ match' = next
    /\ state' = "BASE"
    /\ UNCHANGED <<pc, input, dont_shuffle, dont_repeat, directory_count,
                   directories, help_printed, stderr, exit_status>>
    /\ UNCHANGED mainVars

\* One iteration of the loop of parseArguments.
ParseStep ==
    \/ BaseEnd
    \/ BaseEmpty
    \/ BaseHelp
    \/ BaseNoShuffle
    \/ BaseMatch
    \/ BaseNoRepeat
    \/ BaseEndOfOptions
    \/ BaseUnknownLong
    \/ BaseShortDone
    \/ BaseShortHelp
    \/ BaseShortMatch
    \/ BaseShortMatchNext
    \/ BaseShortMatchMissing
    \/ BaseShortUnknown
    \/ BaseDirectory
    \/ EndOfOptionsEnd
    \/ EndOfOptionsDirectory
    \/ MatchMissing
    \/ MatchArgument

-----------------------------------------------------------------------------
(* main up to the call of parseArguments.                                  *)

\* clock_gettime(CLOCK_MONOTONIC) and srand: a failed clock read is fatal.
SeedRandom ==
    /\ pc = "start"
    /\ \/ /\ pc' = "parse"
          /\ UNCHANGED <<stderr, exit_status>>
       \/ /\ stderr' = Append(stderr, "clock_failed")
          /\ Exit("exit1")
    /\ UNCHANGED parserVars
    /\ UNCHANGED mainVars

-----------------------------------------------------------------------------
(* main after parseArguments: the directory check and regcomp.             *)

\* 0 == arguments.directory_count: a usage error.
CheckDirectories ==
    /\ pc = "parsed"
    /\ IF directory_count = 0
       THEN /\ printShortHelp("no_directories")
            /\ Exit("exit1")
       ELSE /\ pc' = "regcomp"
            /\ UNCHANGED <<stderr, exit_status>>
    /\ UNCHANGED parserVars
    /\ UNCHANGED mainVars

Range(s) == {s[k] : k \in 1..Len(s)}

\* regcomp(&regex, pattern, REG_EXTENDED | REG_ICASE) != 0.  The model
\* covers the expressions made of ordinary characters, an optional leading
\* "^" and parentheses; an unmatched parenthesis does not compile.
regcompFails(pattern) ==
    Cardinality({k \in 1..Len(pattern) : pattern[k] = "("})
        # Cardinality({k \in 1..Len(pattern) : pattern[k] = ")"})

\* REG_ICASE: letters compare without regard to case.
Fold(c) == CASE c = "A" -> "a" [] c = "B" -> "b" [] OTHER -> c

\* The ordinary characters of `literal` occur in `name` from index `at` on.
MatchesAt(literal, name, at) ==
    /\ at + Len(literal) - 1 <= Len(name)
    /\ \A k \in 1..Len(literal) : Fold(name[at + k - 1]) = Fold(literal[k])

\* 0 == regexec(&regex, name, 0, NULL, 0) for a compiled pattern.
regexec(pattern, name) ==
    IF pattern # <<>> /\ Head(pattern) = "^"
    THEN MatchesAt(Tail(pattern), name, 1)
    ELSE \E at \in 1..(Len(name) + 1) : MatchesAt(pattern, name, at)

CompileMatch ==
    /\ pc = "regcomp"
    /\ IF match # NULL /\ regcompFails(Deref(match))
       THEN /\ stderr' = Append(stderr, "regcomp_failed")
            /\ Exit("exit1")
            /\ UNCHANGED regex
       ELSE /\ regex' = match
            /\ pc' = "load"
            /\ UNCHANGED <<stderr, exit_status>>
    /\ UNCHANGED parserVars
    /\ UNCHANGED <<fs, size, i, playlist, shuffles, song, cycle, children, invoked>>

-----------------------------------------------------------------------------
(* isMusicFile.                                                            *)

music_file_extensions ==
    {<<".", "m", "p", "3">>, <<".", "f", "l", "a", "c">>,
     <<".", "w", "a", "v">>, <<".", "o", "g", "g">>}

\* The backward scan of isMusicFile: file_extension as an offset into path
\* once the loop is left with characters_left characters unexamined.  It
\* stops at a '.' or '/', or one before the start of path (offset -1) when
\* path holds neither.
RECURSIVE ExtensionOffset(_, _)
ExtensionOffset(path, characters_left) ==
    IF 0 < characters_left /\ path[characters_left] \notin {".", "/"}
    THEN ExtensionOffset(path, characters_left - 1)
    ELSE characters_left - 1

\* The string strcmp reads at file_extension.  At offset -1 it starts with
\* the byte stored before path, which is not part of path (an out-of-bounds
\* read): `before` is that byte.
ExtensionAt(path, before) ==
    LET offset == ExtensionOffset(path, Len(path)) IN
    IF offset >= 0 THEN Skip(path, offset) ELSE <<before>> \o path

isMusicFile(path, before) == ExtensionAt(path, before) \in music_file_extensions

\* The bytes an out-of-bounds read may find: a '.' or anything else.
PrevBytes == {".", "#"}

-----------------------------------------------------------------------------
(* The file system and playlistAppendFromDirectory.                        *)

A_MP3 == <<"a", ".", "m", "p", "3">>
B_OGG == <<"b", ".", "o", "g", "g">>
A_TXT == <<"a", ".", "t", "x", "t">>
MP3   == <<"m", "p", "3">>
NX    == <<"n", "x">>

\* Names a directory entry can have, and the directories that exist.
FileNames == {A_MP3, B_OGG, A_TXT, MP3}
ExistingDirs == {D1, D2}

\* What readdir can return for one directory: distinct names, in any order.
Listings ==
    UNION {{l \in [1..n -> FileNames] :
                \A a, b \in 1..n : a # b => l[a] # l[b]} : n \in 0..MaxEntries}

\* The expressions given to --match.
Patterns == {<<"A">>, <<"^", "b">>, <<"(">>}

\* path "/" d_name, as the strcat chain builds it.
FilePath(path, d_name) == path \o <<"/">> \o d_name

\* The entries the loop of playlistAppendFromDirectory appends for the
\* entries listing[from ..], in readdir order; before[k] is the byte stored
\* before the k-th d_name.
RECURSIVE AppendedSongs(_, _, _, _, _)
AppendedSongs(path, listing, from, before, regexp) ==
    IF from > Len(listing) THEN <<>>
    ELSE LET d_name == listing[from]
             rest   == AppendedSongs(path, listing, from + 1, before, regexp)
         IN  IF ~isMusicFile(d_name, before[from]) THEN rest
             ELSE IF regexp # NULL /\ ~regexec(Deref(regexp), d_name) THEN rest
             ELSE <<FilePath(path, d_name)>> \o rest

playlist_initial_size == 50

\* The size that grows by playlist_initial_size each time the array is full.
GrownSizeLinear(sz, count) ==
    IF count = sz THEN sz + playlist_initial_size ELSE sz

\* Playlist.size after the test count == size of playlistAppendOwnedSong:
\* playlist_initial_size for a Playlist of size 0 and twice the size for
\* any other that is full, the size as it is for one that is not full.
\* realloc is taken to give the array asked for.
GrownSize(sz, count) ==
    IF count = sz
    THEN IF sz = 0 THEN playlist_initial_size ELSE sz * 2
    ELSE sz

\* playlistAppendOwnedSong on the Playlist pl (its size and its songs, count
\* being the number of songs): songs[count] = path and ++count.
playlistAppendOwnedSong(pl, path) ==
    LET count == Len(pl.songs) IN
    [size  |-> GrownSize(pl.size, count),
     songs |-> [k \in 1..(count + 1) |->
                    IF k = count + 1 THEN path ELSE pl.songs[k]]]

\* playlistAppendOwnedSong for each song of `songs` in turn.
RECURSIVE AppendOwnedSongs(_, _)
AppendOwnedSongs(pl, songs) ==
    IF songs = <<>> THEN pl
    ELSE AppendOwnedSongs(playlistAppendOwnedSong(pl, Head(songs)), Tail(songs))

\* Appending that stores the new songs in front of the playlist.
playlistPrependSongs(songs) ==
    /\ playlist' = songs \o playlist
    /\ size' = AppendOwnedSongs([size |-> size, songs |-> playlist], songs).size

\* The Playlist of main after the appends of one scan.
playlistAppendOwnedSongs(songs) ==
    LET pl == AppendOwnedSongs([size |-> size, songs |-> playlist], songs) IN
    /\ playlist' = pl.songs
    /\ size' = pl.size

\* opendir fails: fatal.
LoadDirectoryFails ==
    /\ pc = "load"
    /\ i < directory_count
    /\ directories[i + 1] \notin ExistingDirs
    /\ stderr' = Append(stderr, "opendir_failed")
    /\ Exit("exit1")
    /\ UNCHANGED parserVars
    /\ UNCHANGED mainVars

\* One pass of the for loop of main: playlistAppendFromDirectory on
\* directories[i] and the warning when it appended nothing.  A directory
\* read for the first time gets its listing here and keeps it.
LoadDirectory ==
    /\ pc = "load"
    /\ i < directory_count
    /\ LET directory == directories[i + 1] IN
        /\ directory \in ExistingDirs
        /\ \E listing \in Listings :
            /\ directory \in DOMAIN fs => listing = fs[directory]
            /\ fs' = IF directory \in DOMAIN fs THEN fs
                     ELSE fs @@ (directory :> listing)
            /\ \E before \in [1..Len(listing) -> PrevBytes] :
                LET songs == AppendedSongs(directory, listing, 1, before, regex)
                IN  /\ playlistAppendOwnedSongs(songs)
                    /\ stderr' = IF songs = <<>>
                                 THEN Append(stderr, "directory_empty")
                                 ELSE stderr
    /\ i' = i + 1
    /\ UNCHANGED parserVars
    /\ UNCHANGED <<pc, exit_status, regex, shuffles, song, cycle, children,
                   invoked>>

-----------------------------------------------------------------------------
(* playlistShuffle.                                                        *)

\* Swap that copies songs[b] over songs[a] and forgets to store the old
\* songs[a] at b.
SwapLosesSong(songs, a, b) == [songs EXCEPT ![a + 1] = songs[b + 1]]

\* songs with the entries at indices a and b (from 0) exchanged.
Swap(songs, a, b) ==
    [songs EXCEPT ![a + 1] = songs[b + 1], ![b + 1] = songs[a + 1]]

\* ShufflePartner that never picks n itself while a later index is left.
ShufflePartnerSkipsSelf(n, count, random) ==
    IF count - n > 1 THEN n + 1 + (random % (count - n - 1)) ELSE n

\* The swap partner of index n: n + (size_t)rand() % (count - n).
ShufflePartner(n, count, random) == n + (random % (count - n))

\* The loop of playlistShuffle from index n on; draws[n + 1] is what rand()
\* returns in the pass for index n.
RECURSIVE ShuffleFrom(_, _, _)
ShuffleFrom(songs, n, draws) ==
    IF n < Len(songs)
    THEN ShuffleFrom(Swap(songs, n, ShufflePartner(n, Len(songs), draws[n + 1])),
                     n + 1, draws)
    ELSE songs

\* After the loading loop: regfree, then playlistShuffle unless --no-shuffle.
ShufflePlaylist ==
    /\ pc = "load"
    /\ i = directory_count
    /\ ~dont_shuffle
    /\ \E draws \in [1..Len(playlist) -> 0..MaxRand] :
        playlist' = ShuffleFrom(playlist, 0, draws)
    /\ shuffles' = shuffles + 1
    /\ regex' = NULL
    /\ pc' = "loaded"
    /\ UNCHANGED parserVars
    /\ UNCHANGED <<stderr, exit_status, fs, size, i, song, cycle, children, invoked>>

KeepOrder ==
    /\ pc = "load"
    /\ i = directory_count
    /\ dont_shuffle
    /\ regex' = NULL
    /\ pc' = "loaded"
    /\ UNCHANGED parserVars
    /\ UNCHANGED <<stderr, exit_status, fs, size, i, playlist, shuffles, song,
                   cycle, children, invoked>>

\* CheckSongs that takes an empty directory for an empty playlist.
CheckSongsFailsOnEmptyDirectory ==
    /\ pc = "loaded"
    /\ IF Len(playlist) = 0 \/ "directory_empty" \in Range(stderr)
       THEN /\ stderr' = Append(stderr, "no_songs")
            /\ Exit("exit1")
       ELSE /\ pc' = "play"
            /\ UNCHANGED <<stderr, exit_status>>
    /\ UNCHANGED parserVars
    /\ UNCHANGED mainVars

\* 0 == playlist.count: fatal.
CheckSongs ==
    /\ pc = "loaded"
    /\ IF Len(playlist) = 0
       THEN /\ stderr' = Append(stderr, "no_songs")
            /\ Exit("exit1")
       ELSE /\ pc' = "play"
            /\ UNCHANGED <<stderr, exit_status>>
    /\ UNCHANGED parserVars
    /\ UNCHANGED mainVars

-----------------------------------------------------------------------------
(* The playback loop of main and runCommand.                               *)

\* A child process that has not been waited for: the song it was forked
\* for, where it is, and its exit status once it has terminated.
\*   "forked"   created, execvp not yet called
\*   "playing"  its image is the player
\*   "zombie"   terminated, not yet collected by wait
\*   argv       the vector it has handed to execvp, empty before that
Child(path) ==
    [song |-> path, at |-> "forked", status |-> "running", argv |-> <<>>]

MPV == <<"m", "p", "v">>

\* ArgvWrites that stores the arguments from argv[0] on, over the program
\* name.
ArgvWritesFromZero(program, arguments) ==
    LET argc == 1 + Len(arguments) IN
    <<<<0, Ptr(program)>>>>
        \o [k \in 1..Len(arguments) |-> <<k - 1, Ptr(arguments[k])>>]
        \o <<<<argc, NULL>>>>

\* The stores runCommand makes into argv[], in program order, each as
\* <<index, value>>: argv[0] = cstrCopy(program), argv[1 + i] =
\* cstrCopy(arguments[i]) for each i, and argv[argc] = NULL.
ArgvWrites(program, arguments) ==
    LET argc == 1 + Len(arguments) IN
    <<<<0, Ptr(program)>>>>
        \o [k \in 1..Len(arguments) |-> <<1 + (k - 1), Ptr(arguments[k])>>]
        \o <<<<argc, NULL>>>>

\* The number of elements of char* argv[1 + argc].
ArgvSize(arguments) == 1 + (1 + Len(arguments))

\* argv[] as execvp gets it, element n of the vector at position n + 1: what
\* was stored last at each index, "uninitialized" where nothing was stored.
runCommandArgv(program, arguments) ==
    LET writes == ArgvWrites(program, arguments)
        At(n) == {w \in 1..Len(writes) : writes[w][1] = n}
        LastAt(n) == CHOOSE w \in At(n) : \A v \in At(n) : v <= w
    IN  [k \in 1..ArgvSize(arguments) |->
            IF At(k - 1) = {} THEN "uninitialized"
            ELSE writes[LastAt(k - 1)][2]]

Remove(s, k) == SubSeq(s, 1, k - 1) \o SubSeq(s, k + 1, Len(s))

\* runCommand: fork() fails.
ForkFails ==
    /\ pc = "play"
    /\ song < Len(playlist)
    /\ stderr' = Append(stderr, "fork_failed")
    /\ Exit("exit1")
    /\ UNCHANGED parserVars
    /\ UNCHANGED mainVars

\* runCommand("mpv", {playlist.songs[song]}): fork() creates the child and
\* the parent goes on to wait(NULL).
Fork ==
    /\ pc = "play"
    /\ song < Len(playlist)
    /\ children' = Append(children, Child(playlist[song + 1]))
    /\ invoked' = Append(invoked, playlist[song + 1])
    /\ pc' = "wait"
    /\ UNCHANGED parserVars
    /\ UNCHANGED <<stderr, exit_status, regex, fs, size, i, playlist, shuffles,
                   song, cycle>>

\* The child: execvp replaces its image with the player.
ChildExec ==
    /\ \E k \in 1..Len(children) :
        /\ children[k].at = "forked"
        /\ children' = [children EXCEPT
                ![k].at = "playing",
                ![k].argv = runCommandArgv(MPV, <<children[k].song>>)]
    /\ UNCHANGED parserVars
    /\ UNCHANGED <<pc, stderr, exit_status, regex, fs, size, i, playlist, shuffles,
                   song, cycle, invoked>>

\* ChildExecFails without the exit(1): the child falls through to the end
\* of runCommand and is back in the playback loop of main.
ChildExecFailsReturns ==
    /\ \E k \in 1..Len(children) :
        /\ children[k].at = "forked"
        /\ children' = [children EXCEPT ![k].at = "returned"]
    /\ UNCHANGED parserVars
    /\ UNCHANGED <<pc, stderr, exit_status, regex, fs, size, i, playlist, shuffles,
                   song, cycle, invoked>>

\* The child: execvp fails, the child reports it and calls exit(1).
ChildExecFails ==
    /\ \E k \in 1..Len(children) :
        /\ children[k].at = "forked"
        /\ children' = [children EXCEPT
                ![k].at = "zombie",
                ![k].status = "exit1",
                ![k].argv = runCommandArgv(MPV, <<children[k].song>>)]
    /\ UNCHANGED parserVars
    /\ UNCHANGED <<pc, stderr, exit_status, regex, fs, size, i, playlist, shuffles,
                   song, cycle, invoked>>

\* The player terminates, with a status of its own.
ChildTerminates ==
    /\ \E k \in 1..Len(children) :
        /\ children[k].at = "playing"
        /\ children' = [children EXCEPT ![k].at = "zombie",
                                        ![k].status = "player"]
    /\ UNCHANGED parserVars
    /\ UNCHANGED <<pc, stderr, exit_status, regex, fs, size, i, playlist, shuffles,
                   song, cycle, invoked>>

\* WaitReturns without the wait: the parent goes on while the child is
\* still there.
WaitReturnsAtOnce ==
    /\ pc = "wait"
    /\ song' = song + 1
    /\ pc' = "play"
    /\ UNCHANGED parserVars
    /\ UNCHANGED <<stderr, exit_status, regex, fs, size, i, playlist, shuffles,
                   cycle, children, invoked>>

\* WaitReturns that goes on to the song after the next one.
WaitReturnsSkipsSong ==
    /\ pc = "wait"
    /\ \E k \in 1..Len(children) :
        /\ children[k].at = "zombie"
        /\ children' = Remove(children, k)
    /\ song' = IF song + 2 <= Len(playlist) THEN song + 2 ELSE song + 1
    /\ pc' = "play"
    /\ UNCHANGED parserVars
    /\ UNCHANGED <<stderr, exit_status, regex, fs, size, i, playlist, shuffles,
                   cycle, invoked>>

\* wait(NULL) returns with a terminated child, whose status it drops;
\* runCommand returns and the for loop moves to the next song.
WaitReturns ==
    /\ pc = "wait"
    /\ \E k \in 1..Len(children) :
        /\ children[k].at = "zombie"
        /\ children' = Remove(children, k)
    /\ song' = song + 1
    /\ pc' = "play"
    /\ UNCHANGED parserVars
    /\ UNCHANGED <<stderr, exit_status, regex, fs, size, i, playlist, shuffles,
                   cycle, invoked>>

\* The for loop has played every song and --no-repeat was given:
\* playlistDeinit and return 0.
PlaybackEnds ==
    /\ pc = "play"
    /\ song = Len(playlist)
    /\ dont_repeat
    /\ playlist' = <<>>
    /\ Exit("exit0")
    /\ UNCHANGED parserVars
    /\ UNCHANGED <<stderr, regex, fs, size, i, shuffles, song, cycle, children,
                   invoked>>

\* PlaybackRepeats that shuffles the playlist again for the next pass.
PlaybackRepeatsShuffled ==
    /\ pc = "play"
    /\ song = Len(playlist)
    /\ ~dont_repeat
    /\ cycle < MaxCycles
    /\ song' = 0
    /\ cycle' = cycle + 1
    /\ \E draws \in [1..Len(playlist) -> 0..MaxRand] :
        playlist' = ShuffleFrom(playlist, 0, draws)
    /\ UNCHANGED parserVars
    /\ UNCHANGED <<pc, stderr, exit_status, regex, fs, size, i, shuffles, children,
                   invoked>>

\* The for loop has played every song and the do-while loop repeats.
PlaybackRepeats ==
    /\ pc = "play"
    /\ song = Len(playlist)
    /\ ~dont_repeat
    /\ cycle < MaxCycles
    /\ song' = 0
    /\ cycle' = cycle + 1
    /\ UNCHANGED parserVars
    /\ UNCHANGED <<pc, stderr, exit_status, regex, fs, size, i, playlist, shuffles,
                   children, invoked>>

-----------------------------------------------------------------------------
(* Specifications.                                                         *)

vars == <<pc, input, argv, state, dont_shuffle, match, dont_repeat,
          directory_count, directories, help_printed, stderr, exit_status,
          regex, fs, i, playlist, size, shuffles, song, cycle, children,
          invoked>>

NoFiles == [d \in {} |-> <<>>]

\* The state at the start of main, with either shape of command line.
InitParse ==
    /\ pc = "start"
    /\ input \in {"short", "long"}
    /\ argv = <<>>
    /\ state = "BASE"
    /\ dont_shuffle = FALSE
    /\ match = NULL
    /\ dont_repeat = FALSE
    /\ directory_count = 0
    /\ directories = <<>>
    /\ help_printed = FALSE
    /\ stderr = <<>>
    /\ exit_status = "running"
    /\ regex = NULL
    /\ fs = NoFiles
    /\ i = 0
    /\ playlist = <<>>
    /\ size = 0
    /\ shuffles = 0
    /\ song = 0
    /\ cycle = 0
    /\ children = <<>>
    /\ invoked = <<>>

NextParse == SeedRandom \/ ParseStep \/ CheckDirectories

\* main from its start to the directory check after parseArguments.
SpecParse == InitParse /\ [][NextParse]_vars

\* Directory lists main can be left with by parseArguments.
DirectoryLists ==
    UNION {[1..n -> {D1, D2, NX}] : n \in 0..MaxDirs}

\* The state when parseArguments has returned: any flags, any pattern, any
\* directory list.
Init ==
    /\ pc = "parsed"
    /\ input = "short"
    /\ argv = <<>>
    /\ state = "BASE"
    /\ dont_shuffle \in BOOLEAN
    /\ match \in {NULL} \cup {Ptr(p) : p \in Patterns}
    /\ dont_repeat \in BOOLEAN
    /\ directories \in DirectoryLists
    /\ directory_count = Len(directories)
    /\ help_printed = FALSE
    /\ stderr = <<>>
    /\ exit_status = "running"
    /\ regex = NULL
    /\ fs = NoFiles
    /\ i = 0
    /\ playlist = <<>>
    /\ size = 0
    /\ shuffles = 0
    /\ song = 0
    /\ cycle = 0
    /\ children = <<>>
    /\ invoked = <<>>

Next ==
    \/ CheckDirectories
    \/ CompileMatch
    \/ LoadDirectoryFails
    \/ LoadDirectory
    \/ ShufflePlaylist
    \/ KeepOrder
    \/ CheckSongs
    \/ ForkFails
    \/ Fork
    \/ ChildExec
    \/ ChildExecFails
    \/ ChildTerminates
    \/ WaitReturns
    \/ PlaybackEnds
    \/ PlaybackRepeats

\* main from the return of parseArguments on.
Spec == Init /\ [][Next]_vars

\* The steps of the main process, and of its children.
MainStep ==
    \/ CheckDirectories
    \/ CompileMatch
    \/ LoadDirectoryFails
    \/ LoadDirectory
    \/ ShufflePlaylist
    \/ KeepOrder
    \/ CheckSongs
    \/ ForkFails
    \/ Fork
    \/ WaitReturns
    \/ PlaybackEnds
    \/ PlaybackRepeats

\* Spec with processes that run: the main process takes its next step, a
\* forked child gets to execvp, and a player terminates.
FairSpec ==
    /\ Spec
    /\ WF_vars(MainStep)
    /\ WF_vars(ChildExec \/ ChildExecFails)
    /\ WF_vars(ChildTerminates)

-----------------------------------------------------------------------------
(* playlistAppendOwnedSong taken by itself: call after call on a Playlist  *)
(* that starts zero initialized, as `Playlist playlist = {0}` in main.     *)

\* The paths handed to playlistAppendOwnedSong, taken round and round.
SongPaths == <<FilePath(D1, A_MP3), FilePath(D1, B_OGG), FilePath(D2, A_MP3)>>

\* The paths the next call can be given: any to start with, then the one
\* after the path given last.
PathsToAppend ==
    IF playlist = <<>> THEN Range(SongPaths)
    ELSE {SongPaths[(k % Len(SongPaths)) + 1] :
            k \in {k \in 1..Len(SongPaths) : SongPaths[k] = Last(playlist)}}

InitPlaylist ==
    /\ pc = "append"
    /\ input = "short"
    /\ argv = <<>>
    /\ state = "BASE"
    /\ dont_shuffle = FALSE
    /\ match = NULL
    /\ dont_repeat = FALSE
    /\ directory_count = 0
    /\ directories = <<>>
    /\ help_printed = FALSE
    /\ stderr = <<>>
    /\ exit_status = "running"
    /\ regex = NULL
    /\ fs = NoFiles
    /\ i = 0
    /\ playlist = <<>>
    /\ size = 0
    /\ shuffles = 0
    /\ song = 0
    /\ cycle = 0
    /\ children = <<>>
    /\ invoked = <<>>

\* One call playlistAppendOwnedSong(&playlist, path).
AppendSong ==
    /\ pc = "append"
    /\ Len(playlist) < MaxAppends
    /\ \E path \in PathsToAppend : playlistAppendOwnedSongs(<<path>>)
    /\ UNCHANGED parserVars
    /\ UNCHANGED <<pc, stderr, exit_status, regex, fs, i, shuffles, song, cycle,
                   children, invoked>>

NextPlaylist == AppendSong

SpecPlaylist == InitPlaylist /\ [][NextPlaylist]_vars

-----------------------------------------------------------------------------
(* Properties of the parser, under SpecParse.                              *)

\* A step of parseArguments that reads at least one token; Read is the
\* first token it reads.
Reads == pc = "parse" /\ Len(argv') > Len(argv)
Read == argv'[Len(argv) + 1]

HelpTokens == {HELP, SHORT_H}

HelpAndExit0 == help_printed /\ pc = "exited" /\ exit_status = "exit0"

\* The flags and the pattern of ParsedArguments.
Settings == <<dont_shuffle, dont_repeat, match>>

\* C1 as stated: once a token "--help" or "-h" has been read (nothing fatal
\* having happened before it, or it would not have been read), the help text
\* has been printed and the process has exited with status 0, whatever the
\* other tokens are.
C1_HelpAnywhere ==
    (\E k \in 1..Len(argv) : argv[k] \in HelpTokens) => HelpAndExit0

\* C1 amended: a token "--help" or "-h" that parseArguments reads in state
\* BASE (not after "--", not as the argument of "--match" or "-m") makes it
\* print the help text and exit with status 0, whatever was read before it.
C1_HelpInBase ==
    [][(Reads /\ state = "BASE" /\ Read \in HelpTokens) => HelpAndExit0']_vars

\* "--help" read in BASE after a directory and a flag: help, exit 0.
C1_Witness ==
    /\ HelpAndExit0
    /\ Len(argv) = 3
    /\ argv[3] \in HelpTokens
    /\ directories # <<>>

\* C2: every step of parseArguments that ends the process on a parse error
\* (unknown option, missing argument of --match or -m) leaves a non-zero
\* exit status, with a usage diagnostic followed by the short-help hint at
\* the end of standard error.
C2_ParseErrorsGiveHint ==
    [][(/\ pc = "parse"
        /\ pc' = "exited"
        /\ ~help_printed'
        /\ directory_count < PARSED_ARGUMENTS_MAX_DIRECTORIES)
       => (/\ exit_status' = "exit1"
           /\ Len(stderr') >= 2
           /\ stderr'[Len(stderr') - 1] \in {"unknown_option", "expects_argument"}
           /\ stderr'[Len(stderr')] = "short_help")]_vars

\* C3: in END_OF_OPTIONS the parser stays in END_OF_OPTIONS, and every token
\* it reads there is appended to the directory list, the flags and the
\* pattern left as they are.
C3_EndOfOptionsAppendsAll ==
    [][(pc = "parse" /\ state = "END_OF_OPTIONS")
       => (/\ state' = "END_OF_OPTIONS"
           /\ Settings' = Settings
           /\ Reads => (/\ Len(argv') = Len(argv) + 1
                        /\ directories' = Append(directories, Read)
                        /\ directory_count' = Len(directories')))]_vars

\* C4: a "--match" read in BASE puts the parser in MATCH and changes nothing
\* else; in MATCH the next token, whatever it is, becomes the pattern and
\* nothing else changes but the state, which is BASE again; with no token
\* left the process exits with status 1 and parseArguments never returns.
C4_MatchTakesNextToken ==
    [][/\ (Reads /\ state = "BASE" /\ Read = MATCH)
          => (/\ state' = "MATCH"
              /\ pc' = "parse"
              /\ argv' = Append(argv, MATCH)
              /\ <<dont_shuffle, dont_repeat, match, directories,
                   help_printed>>' =
                 <<dont_shuffle, dont_repeat, match, directories,
                   help_printed>>)
       /\ (pc = "parse" /\ state = "MATCH")
          => \/ /\ Reads
                /\ argv' = Append(argv, Read)
                /\ match' = Ptr(Read)
                /\ state' = "BASE"
                /\ pc' = "parse"
                /\ <<dont_shuffle, dont_repeat, directories, help_printed,
                     stderr>>' =
                   <<dont_shuffle, dont_repeat, directories, help_printed,
                     stderr>>
             \/ /\ argv' = argv
                /\ pc' = "exited"
                /\ exit_status' = "exit1"]_vars

\* "--match --help": "--help" is the pattern, no help is printed.
C4_Witness ==
    /\ argv = <<MATCH, HELP>>
    /\ match = Ptr(HELP)
    /\ state = "BASE"
    /\ pc = "parse"
    /\ ~help_printed
    /\ directories = <<>>

\* C5: a token "-c1...cn" read in BASE is never appended as a directory;
\* c1 = 'h' prints the help and exits with status 0; c1 = 'm' makes the
\* rest of the token the pattern if there is a rest, else the next token if
\* there is one, else exits with status 1; any other c1 exits with status 1.
C5_ShortOptions ==
    [][(Reads /\ state = "BASE" /\ BaseCase(Read) = "short" /\ Len(Read) > 1)
       => LET options == Skip(Read, 1) IN
          /\ directories' = directories
          /\ Head(options) = "h" => HelpAndExit0'
          /\ (Head(options) = "m" /\ Len(options) > 1)
             => (match' = Ptr(Tail(options)) /\ pc' = "parse"
                 /\ argv' = Append(argv, Read))
          /\ (Head(options) = "m" /\ Len(options) = 1)
             => \/ /\ Len(argv') = Len(argv) + 2
                   /\ match' = Ptr(argv'[Len(argv')])
                   /\ pc' = "parse"
                \/ /\ Len(argv') = Len(argv) + 1
                   /\ pc' = "exited"
                   /\ exit_status' = "exit1"
          /\ Head(options) \notin {"h", "m"}
             => (pc' = "exited" /\ exit_status' = "exit1")]_vars

-----------------------------------------------------------------------------
(* Properties of the playlist and of playback, under Spec and FairSpec.    *)

Occurrences(s, x) == Cardinality({k \in 1..Len(s) : s[k] = x})

\* The loading loop is over and the playlist has not been released.
Loaded == \/ pc = "load" /\ i = directory_count
          \/ pc \in {"loaded", "play", "wait"}

Playing == pc \in {"play", "wait"}

\* The extension of a file name as the specification has it: the suffix that
\* starts at the last '.', and no extension for a name without a '.'.
HasMusicExtension(name) ==
    \E k \in 1..Len(name) :
        /\ name[k] = "."
        /\ \A j \in (k + 1)..Len(name) : name[j] # "."
        /\ SubSeq(name, k, Len(name)) \in music_file_extensions

\* The files of directory that belong in the playlist.
Wanted(directory) ==
    {FilePath(directory, fs[directory][k]) : k \in
        {k \in 1..Len(fs[directory]) :
            /\ HasMusicExtension(fs[directory][k])
            /\ match = NULL \/ regexec(Deref(match), fs[directory][k])}}

\* C6: once the directories are loaded, the playlist holds exactly the files
\* of the directories named that have a music extension and match the
\* pattern if there is one, and holds no file twice.
C6_ExactlyTheWantedFilesOnce ==
    Loaded =>
        /\ Range(playlist) = UNION {Wanted(directories[k]) : k \in 1..directory_count}
        /\ \A x \in Range(playlist) : Occurrences(playlist, x) = 1

\* C7: a call of playlistShuffle leaves the count and the number of
\* occurrences of every song as they were, and leaves a playlist of at most
\* one song as it was.
C7_ShuffleIsPermutation ==
    [][shuffles' # shuffles =>
        /\ Len(playlist') = Len(playlist)
        /\ \A x \in Range(playlist) \cup Range(playlist') :
              Occurrences(playlist', x) = Occurrences(playlist, x)
        /\ Len(playlist) <= 1 => playlist' = playlist]_vars

\* playlistShuffle has moved a song of the second directory to the front of
\* a playlist of at least three songs.
C7_Witness ==
    /\ shuffles = 1
    /\ pc = "loaded"
    /\ Len(playlist) >= 3
    /\ directories = <<D1, D2>>
    /\ HasPrefix(playlist[1], D2)

\* C8 as stated: with --no-repeat the playback loop is left only by the
\* return of main with status 0, one child having been forked for each song
\* of the playlist, in playlist order.
C8_NoRepeatExits0 ==
    [][(dont_repeat /\ Playing /\ pc' = "exited")
       => (exit_status' = "exit0" /\ invoked = playlist)]_vars

ForkFailed == stderr # <<>> /\ Last(stderr) = "fork_failed"

\* C8 amended: with --no-repeat, the children are forked for the songs of
\* the playlist in playlist order, each song at most once and none while an
\* earlier child has not been collected; the playback loop is left either by
\* a failed fork or, every song having got its child, by the return of main
\* with status 0; nothing is forked after the exit; and when the forked
\* children get to run and the players terminate, the process exits.
C8_NoRepeatPlaysOnce ==
    /\ []((dont_repeat /\ Playing) =>
            /\ Len(invoked) = song + (IF pc = "wait" THEN 1 ELSE 0)
            /\ Len(invoked) <= Len(playlist)
            /\ invoked = SubSeq(playlist, 1, Len(invoked)))
    /\ [][/\ Len(invoked') > Len(invoked) => children = <<>>
          /\ (dont_repeat /\ Playing /\ pc' = "exited") =>
                \/ ForkFailed' /\ exit_status' = "exit1"
                \/ /\ exit_status' = "exit0"
                   /\ invoked = playlist
                   /\ children = <<>>
          /\ pc = "exited" => invoked' = invoked]_vars
    /\ (dont_repeat /\ pc = "play") ~>
            (pc = "exited" /\ (exit_status = "exit0" \/ ForkFailed))

\* --no-repeat: three songs played, exit with status 0.
C8_Witness ==
    /\ dont_repeat
    /\ pc = "exited"
    /\ exit_status = "exit0"
    /\ Len(invoked) >= 3
    /\ cycle = 0

\* C9: without --no-repeat main never returns (the loop is left by a failed
\* fork only); the k-th child is forked for the song at position k of the
\* playlist taken round and round; playlistShuffle is called at most once,
\* before any child is forked; and the playlist does not change once
\* playback has started.
C9_RepeatKeepsOrder ==
    /\ []((~dont_repeat /\ Playing) =>
            \A k \in 1..Len(invoked) :
                invoked[k] = playlist[((k - 1) % Len(playlist)) + 1])
    /\ []((~dont_repeat /\ invoked # <<>>) => exit_status # "exit0")
    /\ [][/\ (~dont_repeat /\ Playing /\ pc' = "exited") => ForkFailed'
          /\ shuffles' # shuffles => (shuffles = 0 /\ invoked = <<>> /\ ~Playing)
          /\ (~dont_repeat /\ Playing) => playlist' = playlist]_vars

\* A second pass over a shuffled playlist of two songs or more.
C9_Witness ==
    /\ ~dont_repeat
    /\ shuffles = 1
    /\ cycle = 1
    /\ Len(playlist) >= 2
    /\ Len(invoked) = 2 * Len(playlist)

\* The entries of the k-th directory named, in readdir order.
Listing(k) == fs[directories[k]]

\* The sets of entries (by position in readdir order) that can survive a
\* scan of the k-th directory named: an entry whose name holds a '.'
\* survives exactly if it has a music extension and matches the pattern.
Survivors(k) ==
    {kept \in SUBSET (1..Len(Listing(k))) :
        \A n \in 1..Len(Listing(k)) :
            "." \in Range(Listing(k)[n]) =>
                (n \in kept <=>
                    /\ HasMusicExtension(Listing(k)[n])
                    /\ match = NULL \/ regexec(Deref(match), Listing(k)[n]))}

\* The paths of the entries kept[k] of the k-th directory named, in readdir
\* order, followed by those of the directories after it, in command-line
\* order.
RECURSIVE EnumerationFrom(_, _, _)
EnumerationFrom(k, n, kept) ==
    IF k > directory_count THEN <<>>
    ELSE IF n > Len(Listing(k)) THEN EnumerationFrom(k + 1, 1, kept)
    ELSE (IF n \in kept[k]
          THEN <<FilePath(directories[k], Listing(k)[n])>> ELSE <<>>)
            \o EnumerationFrom(k, n + 1, kept)

\* C10: with --no-shuffle the playlist the playback loop works on is the
\* enumeration of the directories, in command-line order and within each
\* directory in readdir order, of the entries that survived each scan.
C10_NoShuffleKeepsEnumerationOrder ==
    (dont_shuffle /\ Playing) =>
        /\ shuffles = 0
        /\ \E kept \in [1..directory_count -> SUBSET (1..MaxEntries)] :
            /\ \A k \in 1..directory_count : kept[k] \in Survivors(k)
            /\ playlist = EnumerationFrom(1, 1, kept)

\* --no-shuffle with two directories and three songs or more.
C10_Witness ==
    /\ dont_shuffle
    /\ pc = "play"
    /\ directories = <<D1, D2>>
    /\ Len(playlist) >= 3
    /\ invoked = <<>>

-----------------------------------------------------------------------------
(* Error handling: properties under SpecParse and Spec.                    *)

\* A step of parseArguments that takes the token it reads for a directory.
TakenForDirectory ==
    /\ Reads
    /\ \/ state = "END_OF_OPTIONS"
       \/ state = "BASE" /\ BaseCase(Read) = "directory"

\* The step of parseArguments that finds directories[] full: the assert of
\* parsedArgumentsAppendDirectory, not a usage error.
DirectoryOverflow ==
    /\ TakenForDirectory
    /\ directory_count = PARSED_ARGUMENTS_MAX_DIRECTORIES

\* A step that ends the process on a usage error: a fatal error of the
\* parser, or the empty directory list main finds after parseArguments.
UsageError ==
    /\ pc \in {"parse", "parsed"}
    /\ pc' = "exited"
    /\ ~help_printed'
    /\ ~DirectoryOverflow

\* C11: a process that ends on a usage error exits with status 1 and has
\* done no partial work: no pattern compiled, no directory opened, no child
\* forked.
C11_UsageErrorsExit1NoWork ==
    [][UsageError => (/\ exit_status' = "exit1"
                      /\ regex' = NULL
                      /\ fs' = NoFiles
                      /\ playlist' = <<>>
                      /\ invoked' = <<>>
                      /\ children' = <<>>)]_vars

\* C12: a scan that appends nothing writes the warning and the loading loop
\* goes on (a scan that appends something writes nothing, and no scan drops
\* what is loaded already); after the last scan main exits with status 1,
\* no child forked, exactly if the playlist is empty, and otherwise starts
\* playback with the playlist as it is.
C12_EmptyDirectoryOnlyWarns ==
    /\ [][/\ (pc = "load" /\ i' = i + 1 /\ pc' # "exited") =>
                /\ pc' = "load"
                /\ Len(playlist') >= Len(playlist)
                /\ SubSeq(playlist', 1, Len(playlist)) = playlist
                /\ stderr' = IF playlist' = playlist
                             THEN Append(stderr, "directory_empty")
                             ELSE stderr
          /\ (pc = "loaded" /\ playlist = <<>>) =>
                /\ pc' = "exited"
                /\ exit_status' = "exit1"
                /\ stderr' = Append(stderr, "no_songs")
                /\ invoked' = <<>>
                /\ children' = <<>>
          /\ (pc = "loaded" /\ playlist # <<>>) =>
                /\ pc' = "play"
                /\ exit_status' = "running"
                /\ playlist' = playlist]_vars
    /\ []((stderr # <<>> /\ Last(stderr) = "no_songs") =>
            (playlist = <<>> /\ i = directory_count /\ invoked = <<>>))

\* Playback starts although one of two directories was empty.
C12_Witness ==
    /\ pc = "play"
    /\ directory_count = 2
    /\ "directory_empty" \in Range(stderr)
    /\ playlist # <<>>

-----------------------------------------------------------------------------
(* The launcher: properties under Spec.                                    *)

\* The children that have not terminated.
Alive == {k \in 1..Len(children) : children[k].at \in {"forked", "playing"}}

\* C13: at most one child is alive at any time, the parent is in wait(NULL)
\* for as long as it has a child that it has not collected, and no child is
\* forked while an earlier one is still there.
C13_OneChildAtATime ==
    /\ Cardinality(Alive) <= 1
    /\ Len(children) <= 1
    /\ children # <<>> => pc = "wait"
    /\ pc = "wait" => (children # <<>> /\ Len(invoked) >= 1
                       /\ children[1].song = Last(invoked))

\* The child of the second song is playing, that of the first is gone.
C13_Witness ==
    /\ pc = "wait"
    /\ Len(invoked) = 2
    /\ Len(children) = 1
    /\ children[1].at = "playing"
    /\ children[1].song = playlist[2]

\* C14: every failure ends the program with exit status 1 and nothing is
\* forked after it: a failed opendir, a failed fork, and a child whose
\* execvp failed (the parent, when wait returns with that child, exits
\* with status 1 instead of going on to the next song).
C14_FailuresAreTerminal ==
    /\ []((stderr # <<>> /\ Last(stderr) \in {"opendir_failed", "fork_failed"})
            => (pc = "exited" /\ exit_status = "exit1"))
    /\ [][/\ (pc = "load" /\ i < directory_count
                /\ directories[i + 1] \notin ExistingDirs)
             => (pc' = "exited" /\ exit_status' = "exit1")
          /\ (pc = "wait" /\ pc' # "wait" /\ children # <<>>
                /\ children[1].status = "exit1")
             => (pc' = "exited" /\ exit_status' = "exit1")
          /\ pc = "exited" => invoked' = invoked]_vars

\* C15: a child is only ever before its execvp, running the player, or
\* terminated; the step it takes from runCommand is either the execvp that
\* replaces its image or, when that fails, exit(1); a step of a child
\* changes nothing of the playback loop; and every child is forked by the
\* process that iterates the playlist, for the song the loop is at.
C15_ChildNeverReturns ==
    /\ [](\A k \in 1..Len(children) :
            /\ children[k].at \in {"forked", "playing", "zombie"}
            /\ children[k].at # "zombie" => children[k].status = "running"
            /\ children[k].at = "zombie" =>
                    children[k].status \in {"exit1", "player"})
    /\ [][/\ \A k \in 1..Len(children) :
                (/\ children[k].at = "forked"
                 /\ Len(children') = Len(children)
                 /\ children'[k] # children[k])
                => \/ children'[k].at = "playing"
                   \/ /\ children'[k].at = "zombie"
                      /\ children'[k].status = "exit1"
          /\ (children' # children /\ Len(children') = Len(children))
                => <<pc, song, cycle, playlist, invoked, exit_status, stderr>>'
                    = <<pc, song, cycle, playlist, invoked, exit_status, stderr>>
          /\ invoked' # invoked
                => /\ pc = "play"
                   /\ pc' = "wait"
                   /\ children = <<>>
                   /\ Len(children') = 1
                   /\ children'[1].at = "forked"
                   /\ invoked' = Append(invoked, playlist[song + 1])]_vars

\* The child of the second song has failed to exec and has exited.
C15_Witness ==
    /\ pc = "wait"
    /\ song = 1
    /\ Len(children) = 1
    /\ children[1].at = "zombie"
    /\ children[1].status = "exit1"

\* Argument lists for runCommand.
ArgumentLists == UNION {[1..n -> {D1, D2}] : n \in 0..MaxArguments}

\* C16: for a program name and n arguments the vector given to execvp has
\* n + 2 elements: the program name, the n arguments in order, and NULL
\* last, every store made into it being at an index from 0 to n + 1; and a
\* child forked by the playback loop hands execvp the vector "mpv", the path
\* of the song the loop is at, NULL.
C16_ChildArgv ==
    /\ \A arguments \in ArgumentLists :
        LET n      == Len(arguments)
            v      == runCommandArgv(MPV, arguments)
            writes == ArgvWrites(MPV, arguments)
        IN  /\ Len(v) = n + 2
            /\ v[1] = Ptr(MPV)
            /\ \A k \in 1..n : v[1 + k] = Ptr(arguments[k])
            /\ v[n + 2] = NULL
            /\ \A w \in 1..Len(writes) : writes[w][1] \in 0..(n + 1)
    /\ \A k \in 1..Len(children) :
        children[k].at # "forked" =>
            /\ children[k].argv = <<Ptr(MPV), Ptr(children[k].song), NULL>>
            /\ children[k].song = playlist[song + 1]

\* The child of the second song runs the player with its vector.
C16_Witness ==
    /\ song = 1
    /\ Len(children) = 1
    /\ children[1].at = "playing"
    /\ children[1].argv = <<Ptr(MPV), Ptr(playlist[2]), NULL>>
    /\ playlist[2] # playlist[1]

-----------------------------------------------------------------------------
(* isMusicFile, playlistShuffle, ParsedArguments and Playlist.             *)

\* Where the extension of name starts (offset from 0) as C17 has it: at the
\* last '.' or '/', at 0 when name holds neither.
StatedExtensionOffset(name) ==
    LET marks == {k \in 1..Len(name) : name[k] \in {".", "/"}} IN
    IF marks = {} THEN 0
    ELSE (CHOOSE k \in marks : \A j \in marks : j <= k) - 1

\* C17: for every entry readdir has returned, the string isMusicFile
\* compares with the extensions starts inside the name, at the last '.' or
\* '/' or else at the first character, and isMusicFile is true exactly if
\* the name from there on is one of the music extensions, whatever is
\* stored before the name.
C17_ExtensionWithinName ==
    \A d \in DOMAIN fs : \A n \in 1..Len(fs[d]) :
        LET name == fs[d][n] IN
        /\ ExtensionOffset(name, Len(name)) >= 0
        /\ ExtensionOffset(name, Len(name)) = StatedExtensionOffset(name)
        /\ \A before \in PrevBytes :
            isMusicFile(name, before) <=>
                Skip(name, StatedExtensionOffset(name)) \in music_file_extensions

\* The sequence 1, 2, ..., n and its permutations.
Identity(n) == [k \in 1..n |-> k]
PermutationsOf(n) ==
    {p \in [1..n -> 1..n] : \A a, b \in 1..n : a # b => p[a] # p[b]}

\* C18: when playlistShuffle is about to run on a playlist of count songs,
\* at every index n from 0 to count - 1 the divisor count - n is positive
\* and the swap partner lies from n to count - 1 whatever rand() returns;
\* and, count being no more than the number of values rand() returns, every
\* permutation of the playlist is what the pass leaves for some draws.
C18_ShuffleInRangeAllPermutations ==
    (pc = "load" /\ i = directory_count /\ ~dont_shuffle) =>
        LET count == Len(playlist) IN
        /\ \A n \in 0..(count - 1) : \A random \in 0..MaxRand :
            /\ count - n > 0
            /\ n <= ShufflePartner(n, count, random)
            /\ ShufflePartner(n, count, random) < count
        /\ count <= MaxRand + 1 =>
            \A p \in PermutationsOf(count) :
                \E draws \in [1..count -> 0..MaxRand] :
                    ShuffleFrom(Identity(count), 0, draws) = p

\* playlistShuffle is about to run on three different songs.
C18_Witness ==
    /\ pc = "load"
    /\ i = directory_count
    /\ ~dont_shuffle
    /\ Len(playlist) = 3
    /\ Cardinality(Range(playlist)) = 3

\* C19: directory_count never exceeds PARSED_ARGUMENTS_MAX_DIRECTORIES and
\* directories[] holds directory_count entries; a token taken for a
\* directory is stored after the ones stored before it; and the token that
\* finds directories[] full ends the process in an abort, with nothing
\* stored and nothing written past the end of directories[].
C19_DirectoriesBounded ==
    /\ [](/\ directory_count <= PARSED_ARGUMENTS_MAX_DIRECTORIES
          /\ Len(directories) = directory_count
          /\ exit_status # "undefined")
    /\ [][/\ (/\ TakenForDirectory
              /\ directory_count < PARSED_ARGUMENTS_MAX_DIRECTORIES)
             => (/\ directories' = Append(directories, Read)
                 /\ directory_count' = directory_count + 1
                 /\ pc' = "parse")
          /\ directories' # directories
             => (TakenForDirectory /\ directories' = Append(directories, Read))
          /\ DirectoryOverflow
             => (/\ pc' = "exited"
                 /\ exit_status' = "SIGABRT"
                 /\ directories' = directories
                 /\ directory_count' = directory_count)]_vars

\* n is playlist_initial_size doubled some number of times.
RECURSIVE IsInitialSizeDoubled(_)
IsInitialSizeDoubled(n) ==
    \/ n = playlist_initial_size
    \/ /\ n > playlist_initial_size
       /\ n % 2 = 0
       /\ IsInitialSizeDoubled(n \div 2)

\* C20: after any number of calls of playlistAppendOwnedSong on a Playlist
\* that started zero initialized, count is at most size and size is 0 or
\* playlist_initial_size times a power of two; each call adds one to
\* count, stores the path it is given at index count - 1, leaves every path
\* stored before where it was, and sets size to playlist_initial_size if
\* size was 0, doubles it if count was equal to size, and else leaves it.
C20_PlaylistGrowth ==
    /\ [](/\ Len(playlist) <= size
          /\ size = 0 \/ IsInitialSizeDoubled(size)
          /\ size = 0 <=> playlist = <<>>)
    /\ [][playlist' # playlist =>
            /\ Len(playlist') = Len(playlist) + 1
            /\ playlist'[Len(playlist')] \in PathsToAppend
            /\ \A k \in 1..Len(playlist) : playlist'[k] = playlist[k]
            /\ size' = IF Len(playlist) # size THEN size
                       ELSE IF size = 0 THEN playlist_initial_size
                       ELSE 2 * size]_vars

\* The 101st append has doubled the size a second time.
C20_Witness ==
    /\ pc = "append"
    /\ Len(playlist) = 2 * playlist_initial_size + 1
    /\ size = 4 * playlist_initial_size

=============================================================================
